---- MODULE Spec2Model ----
(***************************************************************************)
(* Model of towerfall_replay_slack_uploader.go: a single process that      *)
(* globs a replay directory every CHECK_INTERVAL_SECONDS, uploads every    *)
(* *.gif file that the sqlite table posted_replays does not list, and      *)
(* inserts the file's base name into the table after a successful upload.  *)
(* Every error returned to main ends the process with os.Exit(1).          *)
(***************************************************************************)
EXTENDS Integers, Sequences, FiniteSets, TLC

\* ------------------------------------------------------------------ bounds

\* saturation cap of the per-file count of successful uploads (history)
MaxUploads == 2
\* saturation cap of the number of rows one name can have in posted_replays
MaxRows == 2

\* ------------------------------------------------------------- file names

\* directory entries, as <<stem, extension>>, in the lexical order of the names
FileOrder == << [stem |-> "a", ext |-> "gif"],
                [stem |-> "b", ext |-> "gif"],
                [stem |-> "c", ext |-> "txt"] >>

FileNames == { FileOrder[i] : i \in DOMAIN FileOrder }

\* the values ReplayDirectoryPath can have in the configuration file; the
\* second one makes the glob pattern malformed (an unclosed character class)
ReplayDirs == { "replays", "replays[" }

Configs == [ ReplayDirectoryPath : ReplayDirs ]

NoConfig == [ ReplayDirectoryPath |-> "" ]

Min(a, b) == IF a < b THEN a ELSE b

VARIABLES
    dir,            \* names of the files in the replay directory
    dbFile,         \* whether DB_PATH exists
    dbTable,        \* whether the table posted_replays exists in it
    ledger,         \* rows of posted_replays: name -> number of rows
    pc,             \* position of the process
    config,         \* *Config of the running process
    replayPaths,    \* the listing of the current cycle
    replayPathsIdx, \* index of the file being processed
    err,            \* the error that ended the process, "nil" if none
    exitStatus,     \* "running", "exit1", "panic2" or "killed"
    uploaded,       \* history: name -> successful uploads so far (saturating)
    recordFailed,   \* history: names uploaded whose record call failed
    lost,           \* history: names uploaded whose record failed or was cut off
    log,            \* history: calls of the current cycle of the current process
    scanLedger,     \* history: names in the ledger when the current cycle scanned
    scanReadable,   \* history: whether the directory could be read at that scan
    startLedger     \* history: names in the ledger when the current process started

vars == << dir, dbFile, dbTable, ledger, pc, config, replayPaths,
           replayPathsIdx, err, exitStatus, uploaded, recordFailed, lost, log,
           scanLedger,
           scanReadable, startLedger >>

envVars == << dir >>
dbVars == << dbFile, dbTable, ledger >>
histVars == << uploaded, recordFailed, lost, log, scanLedger, scanReadable,
              startLedger >>

\* ---------------------------------------------------------- pure functions

\* filepath.Join(dir, name)
Join(d, n) == [ dir |-> d, name |-> n ]

\* filepath.Base(path)
Base(p) == p.name

\* variant: the pattern is "*"
MatchGif_Any(n) == TRUE

\* the pattern "*.gif" against a name
MatchGif(n) == n.ext = "gif"

\* path.Match's well-formedness of filepath.Join(ReplayDirectoryPath, "*.gif")
PatternWellFormed(d) == d # "replays["

\* filepath.Glob: the only error is a malformed pattern; an I/O error reading
\* the directory is ignored and gives no match. Matches come sorted by name.
Glob(d, entries, readable) ==
    IF ~PatternWellFormed(d)
    THEN [ paths |-> << >>, err |-> "ErrBadPattern" ]
    ELSE IF ~readable
    THEN [ paths |-> << >>, err |-> "nil" ]
    ELSE LET hits == SelectSeq(FileOrder, LAMBDA n : n \in entries /\ MatchGif(n))
         IN [ paths |-> [ i \in DOMAIN hits |-> Join(d, hits[i]) ],
              err |-> "nil" ]

\* names with at least one row in posted_replays
LedgerNames == { n \in FileNames : ledger[n] > 0 }

\* func fileExists
fileExists(exists) == exists

\* an error value: its kind and its message
Err(k, m) == [ kind |-> k, msg |-> m ]

Nil == Err("nil", "")

\* response bodies of the files.upload call: whether the text is JSON that
\* unmarshals into ResponseBody, and the fields Ok and Error it then has
Bodies == { [ json |-> TRUE,  Ok |-> TRUE,  Error |-> "" ],
            [ json |-> TRUE,  Ok |-> FALSE, Error |-> "invalid_auth" ],
            [ json |-> TRUE,  Ok |-> FALSE, Error |-> "" ],
            [ json |-> FALSE, Ok |-> FALSE, Error |-> "" ] }

\* what one upload meets: whether os.Open of the file succeeds while the file
\* is there, and what http.Post gives: a transport error, or a status code and
\* a body
Responses == [ open : BOOLEAN, transport : { "ok", "error" }, status : { 200, 500 },
               body : Bodies ]

\* variant: the Ok field of the body is not looked at
checkResponseOk_IgnoreOk(body) ==
    IF ~body.json THEN Err("parse", "")
    ELSE Nil

\* func checkResponseOk: json.Unmarshal, then the Ok field; the error made
\* for Ok # true is the text "Error uploading replay: " and the Error field
checkResponseOk(body) ==
    IF ~body.json THEN Err("parse", "")
    ELSE IF body.Ok # TRUE THEN Err("api", "Error uploading replay: " \o body.Error)
    ELSE Nil

\* func uploadReplay: os.Open of the file, http.Post, status, checkResponseOk
uploadReplay(path, entries, resp) ==
    IF ~(resp.open /\ Base(path) \in entries) THEN Err("open", "")
    ELSE IF resp.transport # "ok" THEN Err("transport", "")
    ELSE IF resp.status # 200 THEN Err("status", "")
    ELSE checkResponseOk(resp.body)

\* outcomes of one statement against the database
DbOutcomes == { "ok", "prepare_fail", "exec_fail" }

\* whether a statement fails: the table is missing, or the I/O fails
DbFails(tableExists, io) == ~tableExists \/ io # "ok"

\* variant: the count is never seen (every name is reported as not uploaded)
checkReplayAlreadyUploaded_NeverFound(fileName, rows, tableExists, io) ==
    IF ~tableExists \/ io = "prepare_fail"
    THEN [ uploaded |-> FALSE, err |-> Err("prepare", ""), panic |-> TRUE ]
    ELSE IF io = "exec_fail"
    THEN [ uploaded |-> FALSE, err |-> Err("query", ""), panic |-> FALSE ]
    ELSE [ uploaded |-> FALSE, err |-> Nil, panic |-> FALSE ]

\* variant: a failed query is swallowed and reported as (false, nil)
checkReplayAlreadyUploaded_SwallowError(fileName, rows, tableExists, io) ==
    IF ~tableExists \/ io # "ok"
    THEN [ uploaded |-> FALSE, err |-> Nil, panic |-> FALSE ]
    ELSE [ uploaded |-> rows[fileName] # 0, err |-> Nil, panic |-> FALSE ]

\* func checkReplayAlreadyUploaded: (bool, error). A failed Prepare leaves
\* stmnt nil, and the deferred stmnt.Close() then panics.
checkReplayAlreadyUploaded(fileName, rows, tableExists, io) ==
    IF ~tableExists \/ io = "prepare_fail"
    THEN [ uploaded |-> FALSE, err |-> Err("prepare", ""), panic |-> TRUE ]
    ELSE IF io = "exec_fail"
    THEN [ uploaded |-> FALSE, err |-> Err("query", ""), panic |-> FALSE ]
    ELSE [ uploaded |-> rows[fileName] # 0, err |-> Nil, panic |-> FALSE ]

\* variant: a failed Exec has inserted the row all the same
recordReplayWasUploaded_InsertThenFail(replayFileName, rows, tableExists, io) ==
    IF ~tableExists \/ io = "prepare_fail"
    THEN [ rows |-> rows, err |-> Err("record", "prepare"), panic |-> TRUE ]
    ELSE IF io = "exec_fail"
    THEN [ rows |-> [ rows EXCEPT ![replayFileName] = Min(@ + 1, MaxRows) ],
           err |-> Err("record", "exec"), panic |-> FALSE ]
    ELSE [ rows |-> [ rows EXCEPT ![replayFileName] = Min(@ + 1, MaxRows) ],
           err |-> Nil, panic |-> FALSE ]

\* func recordReplayWasUploaded: the rows after the call, and the error
recordReplayWasUploaded(replayFileName, rows, tableExists, io) ==
    IF ~tableExists \/ io = "prepare_fail"
    THEN [ rows |-> rows, err |-> Err("record", "prepare"), panic |-> TRUE ]
    ELSE IF io = "exec_fail"
    THEN [ rows |-> rows, err |-> Err("record", "exec"), panic |-> FALSE ]
    ELSE [ rows |-> [ rows EXCEPT ![replayFileName] = Min(@ + 1, MaxRows) ],
           err |-> Nil, panic |-> FALSE ]

\* one call of the current cycle, for the history
Event(o, n, e, f) == [ op |-> o, name |-> n, err |-> e, found |-> f ]

\* ------------------------------------------------------------------- state

Init ==
    /\ dir \in SUBSET FileNames
    /\ dbFile = FALSE
    /\ dbTable = FALSE
    /\ ledger = [ n \in FileNames |-> 0 ]
    /\ pc = "main"
    /\ config = NoConfig
    /\ replayPaths = << >>
    /\ replayPathsIdx = 0
    /\ err = Nil
    /\ exitStatus = "running"
    /\ uploaded = [ n \in FileNames |-> 0 ]
    /\ recordFailed = {}
    /\ lost = {}
    /\ log = << >>
    /\ scanLedger = {}
    /\ scanReadable = TRUE
    /\ startLedger = {}

\* the file the loop of checkAndUploadReplays is at
replayFilePath == replayPaths[replayPathsIdx]
replayName == Base(replayFilePath)

\* an error reaches main, which logs it and calls os.Exit(1); a panic ends
\* the process with status 2
Abort(e, panic) ==
    /\ pc' = "exited"
    /\ err' = e
    /\ exitStatus' = IF panic THEN "panic2" ELSE "exit1"
    /\ UNCHANGED << config, replayPaths, replayPathsIdx >>

\* variant: the function returns after the first file of the listing
NextReplay_ReturnEarly ==
    /\ replayPathsIdx' = 0
    /\ replayPaths' = << >>
    /\ pc' = "sleep"
    /\ UNCHANGED << config, err, exitStatus >>

\* the end of one iteration of the loop over replayPaths: the next file, or
\* the return of checkAndUploadReplays and time.Sleep
NextReplay ==
    /\ IF replayPathsIdx < Len(replayPaths)
       THEN /\ replayPathsIdx' = replayPathsIdx + 1
            /\ pc' = "check"
            /\ UNCHANGED replayPaths
       ELSE /\ replayPathsIdx' = 0
            /\ replayPaths' = << >>
            /\ pc' = "sleep"
    /\ UNCHANGED << config, err, exitStatus >>

\* ----------------------------------------------------------------- actions

\* main: readConfig succeeds
ReadConfigOk(c) ==
    /\ pc = "main"
    /\ config' = c
    /\ pc' = "init"
    /\ UNCHANGED << envVars, dbVars, replayPaths, replayPathsIdx, err, exitStatus,
                    histVars >>

\* main: readConfig fails
ReadConfigFail ==
    /\ pc = "main"
    /\ Abort(Err("config", ""), FALSE)
    /\ UNCHANGED << envVars, dbVars, histVars >>

\* variant: the database is created anew at every start, over an existing one
InitializeDbIfNotExist_Recreate(io) ==
    /\ pc = "init"
    /\ CASE io = "ok" ->
              /\ dbFile' = TRUE
              /\ dbTable' = TRUE
              /\ ledger' = [ n \in FileNames |-> 0 ]
              /\ pc' = "scan"
              /\ UNCHANGED << config, replayPaths, replayPathsIdx, err, exitStatus >>
         [] io = "prepare_fail" ->
              /\ UNCHANGED << dbFile, dbTable, ledger >>
              /\ Abort(Err("init", "open"), FALSE)
         [] io = "exec_fail" ->
              /\ dbFile' = TRUE
              /\ UNCHANGED << dbTable, ledger >>
              /\ Abort(Err("init", "exec"), FALSE)
    /\ UNCHANGED << envVars, histVars >>

\* func initializeDbIfNotExist: nothing when the file exists; otherwise the
\* file is created by the first connection and CREATE TABLE is executed
InitializeDbIfNotExist(io) ==
    /\ pc = "init"
    /\ IF fileExists(dbFile)
       THEN /\ io = "ok"
            /\ pc' = "scan"
            /\ UNCHANGED << dbFile, dbTable, config, replayPaths, replayPathsIdx,
                            err, exitStatus >>
       ELSE CASE io = "ok" ->
                   /\ dbFile' = TRUE
                   /\ dbTable' = TRUE
                   /\ pc' = "scan"
                   /\ UNCHANGED << config, replayPaths, replayPathsIdx, err,
                                   exitStatus >>
              [] io = "prepare_fail" ->
                   \* the connection cannot be opened: no file is created
                   /\ UNCHANGED << dbFile, dbTable >>
                   /\ Abort(Err("init", "open"), FALSE)
              [] io = "exec_fail" ->
                   \* the file is created and CREATE TABLE fails
                   /\ dbFile' = TRUE
                   /\ UNCHANGED dbTable
                   /\ Abort(Err("init", "exec"), FALSE)
    /\ UNCHANGED << envVars, ledger, histVars >>

\* checkAndUploadReplays: filepath.Glob, on a directory that can be read
\* or cannot (missing, permission denied) at that time
Scan(readable) ==
    /\ pc = "scan"
    /\ log' = << >>
    /\ scanLedger' = LedgerNames
    /\ scanReadable' = readable
    /\ LET g == Glob(config.ReplayDirectoryPath, dir, readable)
       IN IF g.err # "nil"
          THEN Abort(Err("glob", g.err), FALSE)
          ELSE /\ IF g.paths = << >>
                  THEN /\ replayPaths' = << >>
                       /\ replayPathsIdx' = 0
                       /\ pc' = "sleep"
                  ELSE /\ replayPaths' = g.paths
                       /\ replayPathsIdx' = 1
                       /\ pc' = "check"
               /\ UNCHANGED << config, err, exitStatus >>
    /\ UNCHANGED << envVars, dbVars, uploaded, recordFailed, lost, startLedger >>

\* checkAndUploadReplays: checkReplayAlreadyUploaded(replayName, db)
Check(io) ==
    /\ pc = "check"
    /\ LET r == checkReplayAlreadyUploaded(replayName, ledger, dbTable, io)
       IN /\ log' = Append(log, Event("contains", replayName,
                                   IF DbFails(dbTable, io) THEN "fail" ELSE "nil",
                                   r.uploaded))
          /\ IF r.err # Nil
             THEN Abort(r.err, r.panic)
             ELSE IF ~r.uploaded
             THEN /\ pc' = "upload"
                  /\ UNCHANGED << config, replayPaths, replayPathsIdx, err,
                                  exitStatus >>
             ELSE NextReplay
    /\ UNCHANGED << envVars, dbVars, uploaded, recordFailed, lost, scanLedger, scanReadable, startLedger >>

\* variant: the error of uploadReplay is dropped and the file is recorded
Upload_IgnoreError(resp) ==
    /\ pc = "upload"
    /\ LET e == uploadReplay(replayFilePath, dir, resp)
       IN /\ log' = Append(log, Event("upload", replayName, e.kind, FALSE))
          /\ uploaded' = IF e # Nil THEN uploaded
                         ELSE [ uploaded EXCEPT ![replayName] = Min(@ + 1, MaxUploads) ]
          /\ pc' = "record"
          /\ UNCHANGED << config, replayPaths, replayPathsIdx, err, exitStatus >>
    /\ UNCHANGED << envVars, dbVars, recordFailed, lost, scanLedger, scanReadable, startLedger >>

\* variant: a failed upload is skipped and the loop goes on with the next file
Upload_SkipOnError(resp) ==
    /\ pc = "upload"
    /\ LET e == uploadReplay(replayFilePath, dir, resp)
       IN /\ log' = Append(log, Event("upload", replayName, e.kind, FALSE))
          /\ IF e # Nil
             THEN /\ NextReplay
                  /\ UNCHANGED uploaded
             ELSE /\ uploaded' = [ uploaded EXCEPT ![replayName] = Min(@ + 1, MaxUploads) ]
                  /\ pc' = "record"
                  /\ UNCHANGED << config, replayPaths, replayPathsIdx, err,
                                  exitStatus >>
    /\ UNCHANGED << envVars, dbVars, recordFailed, lost, scanLedger, scanReadable, startLedger >>

\* checkAndUploadReplays: uploadReplay(replayFilePath, config)
Upload(resp) ==
    /\ pc = "upload"
    /\ LET e == uploadReplay(replayFilePath, dir, resp)
       IN /\ log' = Append(log, Event("upload", replayName, e.kind, FALSE))
          /\ IF e # Nil
             THEN /\ Abort(e, FALSE)
                  /\ UNCHANGED uploaded
             ELSE /\ uploaded' = [ uploaded EXCEPT ![replayName] = Min(@ + 1, MaxUploads) ]
                  /\ pc' = "record"
                  /\ UNCHANGED << config, replayPaths, replayPathsIdx, err,
                                  exitStatus >>
    /\ UNCHANGED << envVars, dbVars, recordFailed, lost, scanLedger, scanReadable, startLedger >>

\* checkAndUploadReplays: recordReplayWasUploaded(replayName, db)
Record(io) ==
    /\ pc = "record"
    /\ LET r == recordReplayWasUploaded(replayName, ledger, dbTable, io)
       IN /\ log' = Append(log, Event("record", replayName, r.err.kind, FALSE))
          /\ ledger' = r.rows
          /\ IF r.err # Nil
             THEN /\ Abort(r.err, r.panic)
                  /\ recordFailed' = recordFailed \cup { replayName }
                  /\ lost' = lost \cup { replayName }
             ELSE /\ NextReplay
                  /\ UNCHANGED << recordFailed, lost >>
    /\ UNCHANGED << envVars, dbFile, dbTable, uploaded, scanLedger,
                    scanReadable, startLedger >>

\* variant: watchReplayDir returns nil after one cycle and main ends
Sleep_Return ==
    /\ pc = "sleep"
    /\ pc' = "exited"
    /\ exitStatus' = "exit0"
    /\ log' = << >>
    /\ UNCHANGED << envVars, dbVars, config, replayPaths, replayPathsIdx, err,
                    uploaded, recordFailed, lost, scanLedger, scanReadable, startLedger >>

\* watchReplayDir: time.Sleep ends and the loop calls checkAndUploadReplays
Sleep ==
    /\ pc = "sleep"
    /\ pc' = "scan"
    /\ log' = << >>
    /\ UNCHANGED << envVars, dbVars, config, replayPaths, replayPathsIdx, err,
                    exitStatus, uploaded, recordFailed, lost, scanLedger, scanReadable, startLedger >>

\* the process is stopped from outside, and its memory is gone; stopped inside
\* initializeDbIfNotExist the database file may already have been created
\* without its table
Kill ==
    /\ pc # "exited"
    /\ pc' = "exited"
    /\ exitStatus' = "killed"
    /\ lost' = IF pc = "record" THEN lost \cup { replayName } ELSE lost
    /\ IF pc = "init" /\ ~dbFile
       THEN dbFile' \in BOOLEAN
       ELSE UNCHANGED dbFile
    /\ config' = NoConfig
    /\ replayPaths' = << >>
    /\ replayPathsIdx' = 0
    /\ log' = << >>
    /\ scanLedger' = {}
    /\ scanReadable' = TRUE
    /\ startLedger' = {}
    /\ UNCHANGED << envVars, dbTable, ledger, err, uploaded, recordFailed >>

\* the binary is run again
Restart ==
    /\ pc = "exited"
    /\ pc' = "main"
    /\ config' = NoConfig
    /\ replayPaths' = << >>
    /\ replayPathsIdx' = 0
    /\ err' = Nil
    /\ exitStatus' = "running"
    /\ log' = << >>
    /\ scanLedger' = {}
    /\ scanReadable' = TRUE
    /\ startLedger' = LedgerNames
    /\ UNCHANGED << envVars, dbVars, uploaded, recordFailed, lost >>

\* the game writes a file into the directory
CreateFile(n) ==
    /\ n \notin dir
    /\ dir' = dir \cup { n }
    /\ UNCHANGED << dbVars, pc, config, replayPaths, replayPathsIdx,
                    err, exitStatus, histVars >>

\* a file is removed from the directory
RemoveFile(n) ==
    /\ n \in dir
    /\ dir' = dir \ { n }
    /\ UNCHANGED << dbVars, pc, config, replayPaths, replayPathsIdx,
                    err, exitStatus, histVars >>

Next ==
    \/ \E c \in Configs : ReadConfigOk(c)
    \/ ReadConfigFail
    \/ \E io \in DbOutcomes : InitializeDbIfNotExist(io)
    \/ \E readable \in BOOLEAN : Scan(readable)
    \/ \E io \in DbOutcomes : Check(io)
    \/ \E resp \in Responses : Upload(resp)
    \/ \E io \in DbOutcomes : Record(io)
    \/ Sleep
    \/ Kill
    \/ Restart
    \/ \E n \in FileNames : CreateFile(n)
    \/ \E n \in FileNames : RemoveFile(n)

Spec == Init /\ [][Next]_vars

GifNames == { n \in FileNames : MatchGif(n) }

\* the process is inside the loop over replayPaths
InLoop == pc \in { "check", "upload", "record" }

\* the running process has a configuration whose glob pattern is well formed
GoodConfig == config \in Configs /\ PatternWellFormed(config.ReplayDirectoryPath)

\* the one response with which uploadReplay returns nil
OkResponse ==
    [ open |-> TRUE, transport |-> "ok", status |-> 200,
      body |-> [ json |-> TRUE, Ok |-> TRUE, Error |-> "" ] ]

\* the query of file n succeeds
CheckSucceeds(n) ==
    /\ pc = "check"
    /\ replayName = n
    /\ Check("ok")
    /\ pc' # "exited"

\* an upload succeeds
UploadSucceeds == Upload(OkResponse) /\ pc' # "exited"

\* a record succeeds
RecordSucceeds == Record("ok") /\ pc' # "exited"

\* a step of the running process
ProcessStep ==
    \/ \E c \in Configs : ReadConfigOk(c)
    \/ ReadConfigFail
    \/ \E io \in DbOutcomes : InitializeDbIfNotExist(io)
    \/ \E readable \in BOOLEAN : Scan(readable)
    \/ \E io \in DbOutcomes : Check(io)
    \/ \E resp \in Responses : Upload(resp)
    \/ \E io \in DbOutcomes : Record(io)
    \/ Sleep

\* A running process takes its next step, the process is run again after
\* every exit, and every step that can succeed infinitely often does succeed:
\* reading a usable configuration, the initialization, a scan that reads the
\* directory, the query of each file, the upload and the record.
Fairness ==
    /\ WF_vars(ProcessStep)
    /\ WF_vars(Restart)
    /\ SF_vars(\E c \in Configs :
                  PatternWellFormed(c.ReplayDirectoryPath) /\ ReadConfigOk(c))
    /\ SF_vars(GoodConfig /\ InitializeDbIfNotExist("ok"))
    /\ SF_vars(GoodConfig /\ Scan(TRUE))
    /\ \A n \in GifNames : SF_vars(CheckSucceeds(n))
    /\ SF_vars(UploadSucceeds)
    /\ SF_vars(RecordSucceeds)

LiveSpec == Init /\ [][Next]_vars /\ Fairness

\* the running process takes its next step, and nothing more is assumed
LoopSpec == Init /\ [][Next]_vars /\ WF_vars(ProcessStep)

\* -------------------------------------------------------------- properties

\* the last call of the cycle so far
LastEvent == log[Len(log)]

\* C1: no replay file is uploaded successfully more than once, across
\* cycles, aborts and restarts.
C1_PostedAtMostOnce == \A n \in FileNames : uploaded[n] <= 1

\* an upload is about to be made of a file that is gone
UploadBlocked == pc = "upload" /\ replayName \notin dir

\* the database file exists without its table: no query can succeed
QueryBlocked == dbFile /\ ~dbTable

\* C2: under LiveSpec, a *.gif file in the directory is eventually uploaded
\* successfully and recorded, unless it is removed, or a step is kept from
\* succeeding: an upload meets a file that is gone, or the ledger has no table
\* to query.
C2_EventuallyUploaded ==
    \A n \in GifNames :
        (n \in dir) ~> \/ ledger[n] > 0 /\ uploaded[n] > 0
                       \/ n \notin dir
                       \/ UploadBlocked \/ QueryBlocked

\* both files are in the directory, uploaded and recorded, one of them by a
\* process started after the other was recorded
C2_Witness ==
    /\ \A n \in GifNames : n \in dir /\ ledger[n] > 0 /\ uploaded[n] > 0
    /\ startLedger # {}
    /\ startLedger # GifNames

\* C3: in a run in which no record call has failed and the process was never
\* stopped between a successful upload and its record, every file has been
\* uploaded successfully at most once.
C3_AtMostOnceOutsideWindow == lost = {} => \A n \in FileNames : uploaded[n] <= 1

\* a restarted process has found a file it uploaded before in the ledger
C3_Witness ==
    /\ lost = {}
    /\ \E i \in DOMAIN log :
          /\ log[i].op = "contains" /\ log[i].found
          /\ log[i].name \in startLedger
          /\ uploaded[log[i].name] = 1

\* C4: a cycle makes no upload call for a file whose name the ledger held
\* when the cycle scanned.
C4_Dedupe ==
    \A i \in DOMAIN log : log[i].op = "upload" => log[i].name \notin scanLedger

\* a cycle has ended that found a recorded file and made no upload call
C4_Witness ==
    /\ pc = "sleep"
    /\ \E i \in DOMAIN log : log[i].op = "contains" /\ log[i].name \in scanLedger
    /\ \A i \in DOMAIN log : log[i].op # "upload"

\* C5 as stated: a name is in the ledger if and only if an upload of it has
\* succeeded.
C5_LedgerIffUploaded ==
    \A n \in FileNames : (ledger[n] > 0) <=> (uploaded[n] > 0)

\* C5 as amended: a name in the ledger has been uploaded successfully; and a
\* name uploaded successfully is in the ledger unless its record step is still
\* to run, or its record call failed or was cut off by a stop of the process.
C5_LedgerOnlyIfUploaded ==
    \A n \in FileNames :
        /\ ledger[n] > 0 => uploaded[n] > 0
        /\ (uploaded[n] > 0 /\ ledger[n] = 0) =>
               \/ n \in lost
               \/ pc = "record" /\ replayName = n

\* one file is recorded, another was uploaded and its record was lost
C5_Witness ==
    \E n, m \in FileNames :
        /\ ledger[n] > 0 /\ uploaded[n] > 0
        /\ ledger[m] = 0 /\ uploaded[m] > 0 /\ m \in lost
        /\ pc = "sleep"

\* C6: the ledger is append-only: a name in it stays in it at every step,
\* restarts and their initializeDbIfNotExist included.
C6_AppendOnly ==
    [][\A n \in FileNames : ledger'[n] >= ledger[n]]_vars

\* a process started on a store that held names has got past initialization
C6_Witness ==
    /\ pc = "scan"
    /\ startLedger # {}
    /\ startLedger \subseteq LedgerNames

\* C7: a record call that fails ends the process with the ledger unchanged;
\* the next process that reaches that file, finding it absent from the ledger,
\* uploads it again and then records it.
C7_DuplicateWindow ==
    [][ Len(log') = Len(log) + 1 =>
          /\ (pc = "record" /\ log'[Len(log')].err # "nil")
             => (pc' = "exited" /\ exitStatus' \in { "exit1", "panic2" }
                 /\ ledger' = ledger)
          /\ (pc = "check" /\ replayName \in recordFailed /\ ledger[replayName] = 0
              /\ pc' # "exited")
             => pc' = "upload"
          /\ (pc = "upload" /\ replayName \in recordFailed /\ pc' # "exited")
             => (pc' = "record" /\ uploaded'[replayName] >= 2)
          /\ (pc = "record" /\ replayName \in recordFailed /\ pc' # "exited")
             => ledger'[replayName] > 0
      ]_vars

\* a file whose record call failed has been uploaded a second time and
\* recorded
C7_Witness ==
    \E n \in FileNames :
        n \in recordFailed /\ uploaded[n] >= 2 /\ ledger[n] = 1

\* C8: a failed upload is the last call of its cycle: the process has exited
\* with status 1, nothing was done for the files after it, and the failed
\* file is not in the ledger.
C8_FatalOnUploadFailure ==
    \A i \in DOMAIN log :
        (log[i].op = "upload" /\ log[i].err # "nil") =>
            /\ i = Len(log)
            /\ pc = "exited" /\ exitStatus = "exit1"
            /\ ledger[log[i].name] = 0

\* an upload has failed with a file after it in the listing
C8_Witness ==
    /\ log # << >>
    /\ LastEvent.op = "upload" /\ LastEvent.err # "nil"
    /\ replayPathsIdx < Len(replayPaths)

\* C9: a failed ledger query is the last call of its cycle: the file is not
\* uploaded and the process has exited with a non-zero status.
C9_QueryFailureAborts ==
    \A i \in DOMAIN log :
        (log[i].op = "contains" /\ log[i].err # "nil") =>
            /\ i = Len(log)
            /\ pc = "exited" /\ exitStatus \in { "exit1", "panic2" }

\* a query has failed for a file that is not in the ledger, with a file
\* after it in the listing
C9_Witness ==
    /\ log # << >>
    /\ LastEvent.op = "contains" /\ LastEvent.err # "nil"
    /\ ledger[LastEvent.name] = 0
    /\ dbTable
    /\ replayPathsIdx < Len(replayPaths)

\* C10: a scan made while the directory cannot be read ends the process with
\* an error.
C10_UnreadableDirAborts ==
    ~scanReadable => (pc = "exited" /\ exitStatus = "exit1" /\ err.kind = "glob")

\* ------------------------------------------------- properties, second part

\* the base names of a listing
Names(paths) == { Base(paths[i]) : i \in DOMAIN paths }

\* the positions of the upload calls for name n in a cycle's calls
UploadsOf(l, n) == { i \in DOMAIN l : l[i].op = "upload" /\ l[i].name = n }

\* C11: a scan that reads the directory lists exactly its *.gif files; a
\* cycle that scanned with an empty ledger and reaches its sleep has made
\* exactly one upload call, a successful one, for each file of its listing and
\* none for any other, and leaves the ledger equal to the listing; a cycle
\* whose listing holds no file outside the ledger makes no upload call.
C11_NewFileDetection ==
    [][ /\ (pc = "scan" /\ pc' \in { "check", "sleep" } /\ scanReadable')
           => Names(replayPaths') = { n \in dir : n.ext = "gif" }
        /\ (pc \in { "scan", "check", "record" } /\ pc' = "sleep")
           => LET S == Names(replayPaths)
              IN /\ scanLedger' = {} =>
                       /\ \A n \in FileNames :
                             Cardinality(UploadsOf(log', n)) = IF n \in S THEN 1 ELSE 0
                       /\ \A i \in DOMAIN log' :
                             log'[i].op = "upload" => log'[i].err = "nil"
                       /\ LedgerNames' = S
                 /\ S \subseteq scanLedger' =>
                       /\ \A i \in DOMAIN log' : log'[i].op # "upload"
                       /\ ledger' = ledger
      ]_vars

\* a cycle that scanned with an empty ledger has uploaded and recorded both
\* replay files and sleeps
C11_Witness ==
    /\ pc = "sleep"
    /\ scanLedger = {}
    /\ LedgerNames = GifNames
    /\ \A n \in GifNames : Cardinality(UploadsOf(log, n)) = 1

\* C12: a file whose name does not end in .gif is in no listing, is the
\* subject of no query, upload or record call, has no successful upload and
\* no row in the ledger.
C12_NonMatchingIgnored ==
    \A n \in FileNames :
        n.ext # "gif" =>
            /\ n \notin Names(replayPaths)
            /\ \A i \in DOMAIN log : log[i].name # n
            /\ uploaded[n] = 0
            /\ ledger[n] = 0

\* c.txt is in the directory with both replay files, and a cycle that scanned
\* with a ledger holding one of them has uploaded the other and sleeps
C12_Witness ==
    /\ pc = "sleep"
    /\ dir = FileNames
    /\ scanLedger # {}
    /\ \E i \in DOMAIN log : log[i].op = "upload"
    /\ LedgerNames = GifNames

\* C13: uploadReplay returns nil exactly when http.Post was reached and gave
\* no error, the status is 200 and the body unmarshals with Ok true. A
\* transport error, a status other than 200 (whatever the body), a body that
\* does not unmarshal and a body with Ok false each give an error, and the
\* error for Ok false has the body's Error string in its text. The loop acts
\* on that result: a failed upload call leaves its error as the process's.
C13_UploadResult ==
    /\ \A resp \in Responses, n \in FileNames, entries \in SUBSET FileNames :
          LET e == uploadReplay(Join("replays", n), entries, resp)
              posted == resp.open /\ n \in entries
              transportOk == posted /\ resp.transport = "ok"
              statusOk == resp.status = 200
          IN /\ (e = Nil) <=> /\ transportOk /\ statusOk
                              /\ resp.body.json /\ resp.body.Ok
             /\ (posted /\ ~transportOk) => e.kind = "transport"
             /\ (transportOk /\ ~statusOk) => e.kind = "status"
             /\ (transportOk /\ statusOk /\ ~resp.body.json) => e.kind = "parse"
             /\ (transportOk /\ statusOk /\ resp.body.json /\ ~resp.body.Ok)
                => /\ e.kind = "api"
                   /\ e.msg = "Error uploading replay: " \o resp.body.Error
    /\ \A i \in DOMAIN log :
          (log[i].op = "upload" /\ log[i].err # "nil")
             => (pc = "exited" /\ err.kind = log[i].err)
    /\ pc = "record" => (LastEvent.op = "upload" /\ LastEvent.err = "nil")

\* an upload has failed on a body with ok false and the error invalid_auth,
\* and the process has ended with that error
C13_Witness ==
    /\ pc = "exited"
    /\ log # << >>
    /\ LastEvent.op = "upload" /\ LastEvent.err = "api"
    /\ err = Err("api", "Error uploading replay: invalid_auth")

\* the process is past initializeDbIfNotExist, which returned nil
InitSucceeded == pc \in { "scan", "check", "upload", "record", "sleep" }

\* C14: whenever initializeDbIfNotExist has returned nil, the database file
\* and the table posted_replays both exist.
C14_InitSuccessQueryable == InitSucceeded => (dbFile /\ dbTable)

\* C15: a step that changes the ledger is the record call of the file whose
\* query found nothing and whose upload succeeded just before it in the same
\* cycle, and it adds one row for that file; the scan, the query, the upload
\* and the sleep leave the ledger as it is.
C15_LedgerFrame ==
    [][ /\ ledger' # ledger =>
              /\ pc = "record"
              /\ Len(log) >= 2
              /\ LastEvent = Event("upload", replayName, "nil", FALSE)
              /\ log[Len(log) - 1] = Event("contains", replayName, "nil", FALSE)
              /\ uploaded[replayName] > 0
              /\ ledger' = [ ledger EXCEPT ![replayName] = @ + 1 ]
        /\ pc \in { "scan", "check", "upload", "sleep" } => ledger' = ledger
      ]_vars

\* the record call that followed a successful upload has added the file's row
C15_Witness ==
    /\ Len(log) >= 3
    /\ LastEvent.op = "record" /\ LastEvent.err = "nil"
    /\ log[Len(log) - 1] = Event("upload", LastEvent.name, "nil", FALSE)
    /\ ledger[LastEvent.name] = 1

\* the calls of a cycle come file by file: an upload call directly follows
\* the query of its file that found nothing, a record call directly follows
\* the successful upload of its file, and the query of a file directly
\* follows the query that found the file before it or that file's record
CallsInSequence ==
    \A i \in DOMAIN log :
        /\ log[i].op = "upload" =>
              (i > 1 /\ log[i - 1] = Event("contains", log[i].name, "nil", FALSE))
        /\ log[i].op = "record" =>
              (i > 1 /\ log[i - 1] = Event("upload", log[i].name, "nil", FALSE))
        /\ (log[i].op = "contains" /\ i > 1) =>
              /\ log[i - 1].name # log[i].name
              /\ log[i - 1].err = "nil"
              /\ \/ log[i - 1].op = "contains" /\ log[i - 1].found
                 \/ log[i - 1].op = "record"

\* the names queried in a cycle's calls
Queried(l) == { l[i].name : i \in { j \in DOMAIN l : l[j].op = "contains" } }

\* C16: the loop is sequential. The calls of a cycle come file by file, the
\* one file in progress being the last of them; the process comes to a scan
\* only from the initialization or from the end of the sleep, and to the
\* sleep only when every file of the listing has been queried.
C16_Sequential ==
    /\ []CallsInSequence
    /\ [][ /\ (pc' = "scan" /\ pc # "scan") => pc \in { "init", "sleep" }
           /\ (pc' = "sleep" /\ pc # "sleep") =>
                 /\ pc \in { "scan", "check", "record" }
                 /\ Queried(log') = Names(replayPaths)
                 /\ Len(log') >= Len(replayPaths)
           /\ (pc' = "check" /\ pc # "check") =>
                 (pc = "scan" /\ log' = << >>) \/ pc = "record"
         ]_vars

\* the second file of a listing is queried after the record of the first
C16_Witness ==
    /\ Len(log) >= 4
    /\ log[3].op = "record"
    /\ log[4].op = "contains"
    /\ pc = "upload"

C18_LoopForever ==
    /\ [][ /\ (pc' = "sleep" /\ pc # "sleep") =>
                 /\ replayPathsIdx = Len(replayPaths)
                 /\ Queried(log') = Names(replayPaths)
           /\ (pc = "sleep" /\ pc' # "sleep") =>
                 (pc' = "scan" \/ exitStatus' = "killed")
           /\ (pc' = "exited" /\ pc # "exited") =>
                 \/ exitStatus' = "killed"
                 \/ exitStatus' \in { "exit1", "panic2" } /\ err' # Nil
         ]_vars
    /\ (pc # "exited") ~> (pc = "scan" \/ pc = "exited")

\* a process that started on an empty ledger has recorded both files and is
\* back at a scan
C18_Witness ==
    /\ pc = "scan"
    /\ startLedger = {}
    /\ LedgerNames = GifNames

\* the place of a name in the lexical order of the names
Pos(n) == CHOOSE k \in DOMAIN FileOrder : FileOrder[k] = n

\* C19: a listing is in the lexical order of the names, the same in every
\* cycle; an upload call is made for a file only when every file before it in
\* the listing is in the ledger, having been uploaded successfully; so while
\* a file has never been uploaded successfully, no cycle that lists it makes
\* an upload call for a file after it.
C19_HeadOfLine ==
    /\ \A i, j \in DOMAIN replayPaths :
          i < j => Pos(Base(replayPaths[i])) < Pos(Base(replayPaths[j]))
    /\ pc \in { "upload", "record" } =>
          \A k \in 1 .. (replayPathsIdx - 1) : ledger[Base(replayPaths[k])] > 0
    /\ \A i \in DOMAIN log :
          log[i].op = "upload" =>
              \A j \in 1 .. (i - 1) :
                  log[j].name # log[i].name =>
                      /\ Pos(log[j].name) < Pos(log[i].name)
                      /\ ledger[log[j].name] > 0
                      /\ uploaded[log[j].name] > 0

\* the upload of a.gif has failed with b.gif after it in the listing and in
\* the directory, and neither has ever been uploaded
C19_Witness ==
    /\ pc = "exited"
    /\ log # << >>
    /\ LastEvent.op = "upload" /\ LastEvent.err # "nil"
    /\ replayPathsIdx = 1 /\ Len(replayPaths) = 2
    /\ Base(replayPaths[2]) \in dir
    /\ \A n \in FileNames : uploaded[n] = 0

====
